---- MODULE Spec2Model ----
(***************************************************************************)
(* Telemetry correlation pipeline of incident-commander-game.              *)
(*                                                                         *)
(* Server side (cmd/server): the CORS middleware and the two ingestion     *)
(* handlers, each request running on its own goroutine, sharing the        *)
(* client_events_total counter and the game_metrics gauge.                 *)
(* Client side (internal/telemetry, js/wasm): ClientTelemetry, ClientSpan  *)
(* and the detached sendToServer goroutines.                               *)
(***************************************************************************)
EXTENDS Integers, Sequences, FiniteSets, TLC

(* ------------------------------ bounds -------------------------------- *)

\* number of HTTP requests the server receives in one behaviour
MaxReq == 2

\* number of calls the emitting thread makes on the client API
MaxOps == 3

\* largest reading of the wall clock
MaxClock == 2

\* touch events the canvas delivers
MaxTouches == 3

(* --------------------------- dynamic values --------------------------- *)

\* A JSON value, also used for Go interface{} values, span attributes and
\* structured log fields.
JNull == [t |-> "null"]

JStr(s) == [t |-> "str", s |-> s]

JNum(n) == [t |-> "num", n |-> n]

JObj(o) == [t |-> "obj", o |-> o]

\* the function with the empty domain
EmptyFn == <<>>

\* a Go map[string]interface{}: nil or allocated
NilMap == [isNil |-> TRUE, kv |-> EmptyFn]

MakeMap(kv) == [isNil |-> FALSE, kv |-> kv]

\* m[k] = v on a function
\* a map write that keeps the value a key already has
PutIfAbsent(f, k, v) == IF k \in DOMAIN f THEN f ELSE (k :> v) @@ f

Put(f, k, v) == [x \in (DOMAIN f) \cup {k} |-> IF x = k THEN v ELSE f[x]]

\* time.Time rendered as RFC 3339 text, and parsed back
FormatTime(n) == "T" \o ToString(n)

IsTimeText(s) == \E n \in 0..MaxClock : FormatTime(n) = s

ParseTime(s) == CHOOSE n \in 0..MaxClock : FormatTime(n) = s

(* ----------------------------- record types --------------------------- *)

\* the zero value of telemetry.ClientEvent
ZeroEvent ==
  [Type |-> "", Timestamp |-> 0, SessionID |-> "", CorrelationID |-> "",
   Level |-> 0, Score |-> 0, Data |-> "", Attributes |-> NilMap,
   TraceID |-> "", SpanID |-> ""]

\* the zero value of telemetry.ClientMetric
ZeroMetric ==
  [Name |-> "", Value |-> 0, Type |-> "", Timestamp |-> 0, SessionID |-> "",
   Labels |-> NilMap]

(* ------------------------------ decoding ------------------------------ *)

\* A request body: unreadable (io.ReadAll fails), or bytes that are not
\* JSON ("garbage"), or the JSON text of null, of a scalar, or of an object.
UnreadableBody == [kind |-> "unreadable"]

GarbageBody == [kind |-> "garbage"]

NullBody == [kind |-> "null"]

ScalarBody == [kind |-> "scalar"]

ObjectBody(o) == [kind |-> "object", o |-> o]

\* json.Unmarshal of one member into a Go string field
StringFieldOk(o, k) == k \in DOMAIN o => o[k].t \in {"str", "null"}

StringField(o, k, zero) ==
  IF k \in DOMAIN o /\ o[k].t = "str" THEN o[k].s ELSE zero

\* json.Unmarshal of one member into a Go int / float64 field
NumberFieldOk(o, k) == k \in DOMAIN o => o[k].t \in {"num", "null"}

NumberField(o, k, zero) ==
  IF k \in DOMAIN o /\ o[k].t = "num" THEN o[k].n ELSE zero

\* json.Unmarshal of one member into a time.Time field
TimeFieldOk(o, k) ==
  k \in DOMAIN o => \/ o[k].t = "null"
                    \/ o[k].t = "str" /\ IsTimeText(o[k].s)

TimeField(o, k, zero) ==
  IF k \in DOMAIN o /\ o[k].t = "str" /\ IsTimeText(o[k].s)
    THEN ParseTime(o[k].s) ELSE zero

\* json.Unmarshal of one member into a map[string]interface{} field
MapFieldOk(o, k) == k \in DOMAIN o => o[k].t \in {"obj", "null"}

MapField(o, k, zero) ==
  IF k \in DOMAIN o /\ o[k].t = "obj" THEN MakeMap(o[k].o) ELSE zero

\* a decoder that skips the per-member type checks
UnmarshalEventOkLax(b) == b.kind \in {"null", "object"}

\* json.Unmarshal(body, &clientEvent): err # nil or the decoded event
UnmarshalEventOk(b) ==
  \/ b.kind = "null"
  \/ /\ b.kind = "object"
     /\ StringFieldOk(b.o, "type")
     /\ TimeFieldOk(b.o, "timestamp")
     /\ StringFieldOk(b.o, "session_id")
     /\ StringFieldOk(b.o, "correlation_id")
     /\ NumberFieldOk(b.o, "level")
     /\ NumberFieldOk(b.o, "score")
     /\ StringFieldOk(b.o, "data")
     /\ MapFieldOk(b.o, "attributes")
     /\ StringFieldOk(b.o, "trace_id")
     /\ StringFieldOk(b.o, "span_id")

\* a decoder into a struct without the trace_id and span_id members
UnmarshalEventNoTrace(b) ==
  IF b.kind # "object" THEN ZeroEvent
  ELSE [Type          |-> StringField(b.o, "type", ""),
        Timestamp     |-> TimeField(b.o, "timestamp", 0),
        SessionID     |-> StringField(b.o, "session_id", ""),
        CorrelationID |-> StringField(b.o, "correlation_id", ""),
        Level         |-> NumberField(b.o, "level", 0),
        Score         |-> NumberField(b.o, "score", 0),
        Data          |-> StringField(b.o, "data", ""),
        Attributes    |-> MapField(b.o, "attributes", NilMap),
        TraceID       |-> "",
        SpanID        |-> ""]

UnmarshalEvent(b) ==
  IF b.kind # "object" THEN ZeroEvent
  ELSE [Type          |-> StringField(b.o, "type", ""),
        Timestamp     |-> TimeField(b.o, "timestamp", 0),
        SessionID     |-> StringField(b.o, "session_id", ""),
        CorrelationID |-> StringField(b.o, "correlation_id", ""),
        Level         |-> NumberField(b.o, "level", 0),
        Score         |-> NumberField(b.o, "score", 0),
        Data          |-> StringField(b.o, "data", ""),
        Attributes    |-> MapField(b.o, "attributes", NilMap),
        TraceID       |-> StringField(b.o, "trace_id", ""),
        SpanID        |-> StringField(b.o, "span_id", "")]

\* json.Unmarshal(body, &clientMetric)
UnmarshalMetricOk(b) ==
  \/ b.kind = "null"
  \/ /\ b.kind = "object"
     /\ StringFieldOk(b.o, "name")
     /\ NumberFieldOk(b.o, "value")
     /\ StringFieldOk(b.o, "type")
     /\ TimeFieldOk(b.o, "timestamp")
     /\ StringFieldOk(b.o, "session_id")
     /\ MapFieldOk(b.o, "labels")

UnmarshalMetric(b) ==
  IF b.kind # "object" THEN ZeroMetric
  ELSE [Name      |-> StringField(b.o, "name", ""),
        Value     |-> NumberField(b.o, "value", 0),
        Type      |-> StringField(b.o, "type", ""),
        Timestamp |-> TimeField(b.o, "timestamp", 0),
        SessionID |-> StringField(b.o, "session_id", ""),
        Labels    |-> MapField(b.o, "labels", NilMap)]

(* ------------------------------ state --------------------------------- *)

VARIABLES
  \* server: one entry per request received, indexed by arrival
  req,                 \* the *http.Request: endpoint, method, headers, body
  pc,                  \* where the request's goroutine stands
  loc,                 \* the handler's locals
  span,                \* the span the handler started with tracer.Start
  logs,                \* the lines the handler logged
  resp,                \* the http.ResponseWriter
  \* server: process-wide instruments
  clientEventCounter,  \* client_events_total, by attribute set
  gameMetricsGauge,    \* game_metrics, by attribute set
  healthCheckCount,    \* health_checks_total
  \* server: the main goroutine
  main,                \* where main stands and the instruments it has created
  \* client: the ClientTelemetry instance and its spans
  sessionID,
  correlationID,
  events,
  metrics,
  spans,               \* the ClientSpan objects allocated by StartSpan
  \* client: environment
  clock,               \* time.Now()
  sends,               \* goroutines spawned by sendEvent / sendMetric
  ops,                 \* calls made so far by the emitting thread
  \* client: touch input
  inputHandler,        \* the InputHandler fields the touch callbacks use
  game                 \* what the callbacks did to the game: direction, paused

startupVars == <<healthCheckCount, main>>

inputVars == <<inputHandler, game>>

serverVars == <<req, pc, loc, span, logs, resp, clientEventCounter, gameMetricsGauge,
                healthCheckCount, main>>

clientVars == <<sessionID, correlationID, events, metrics, spans, clock, sends, ops,
                inputHandler, game>>

vars == <<req, pc, loc, span, logs, resp, clientEventCounter, gameMetricsGauge,
          healthCheckCount, main,
          sessionID, correlationID, events, metrics, spans, clock, sends, ops,
          inputHandler, game>>

(* --------------------------- server: inputs --------------------------- *)

\* the instruments main creates, in the order it creates them
Instruments ==
  <<"http_requests_total", "http_request_duration_seconds", "health_checks_total",
    "client_events_total", "game_metrics">>

\* game.Direction before any SetDirection call of the touch callbacks
NoDirection == -1

HealthPath == "/health"

\* the routes wrapped by corsMiddleware that serve files
StaticPaths == {"/web/", "/static/", "/images/"}

\* the patterns main registers with http.Handle
Routes == {"/", HealthPath, "/api/telemetry/events", "/api/telemetry/metrics"}
          \cup StaticPaths

EventsPath == "/api/telemetry/events"

MetricsPath == "/api/telemetry/metrics"

\* request header sets; Header.Get yields "" for a header that is absent
NoHeaders == EmptyFn

HeadersOf(s, c) == ("X-Session-ID" :> s) @@ ("X-Correlation-ID" :> c)

HeaderGet(h, k) == IF k \in DOMAIN h THEN h[k] ELSE ""

LevelChangeBody ==
  ObjectBody([type |-> JStr("level_change"), timestamp |-> JStr(FormatTime(1)),
              session_id |-> JStr("sB"), correlation_id |-> JStr("cB"),
              level |-> JNum(5), score |-> JNum(3)])

ScoreChangeBody ==
  ObjectBody([type |-> JStr("score_change"), timestamp |-> JStr(FormatTime(2)),
              session_id |-> JStr("s1"), correlation_id |-> JStr("c1"),
              level |-> JNum(2), score |-> JNum(7)])

GameStartBody ==
  ObjectBody([type |-> JStr("game_start"), session_id |-> JStr("sB"),
              correlation_id |-> JStr("cB"), data |-> JStr("init")])

SpanBody ==
  ObjectBody([type |-> JStr("span"), session_id |-> JStr("sB"),
              correlation_id |-> JStr("cB"), trace_id |-> JStr("trace_1"),
              span_id |-> JStr("span_1"), level |-> JNum(4),
              attributes |-> JObj([duration_ms |-> JNum(1)])])

EmptyObjectBody == ObjectBody(EmptyFn)

BadEventBody == ObjectBody([type |-> JStr("level_change"), level |-> JStr("five")])

BadTimeBody == ObjectBody([type |-> JStr("game_start"), timestamp |-> JStr("noon")])

FpsBody ==
  ObjectBody([name |-> JStr("fps"), value |-> JNum(60), type |-> JStr("gauge"),
              session_id |-> JStr("sB"), labels |-> JObj([level |-> JNum(1)])])

FramesBody ==
  ObjectBody([name |-> JStr("frames_rendered_total"), value |-> JNum(100),
              type |-> JStr("counter"), session_id |-> JStr("sB")])

FramesLowBody ==
  ObjectBody([name |-> JStr("frames_rendered_total"), value |-> JNum(40),
              type |-> JStr("counter"), session_id |-> JStr("sB")])

FpsLowBody ==
  ObjectBody([name |-> JStr("fps"), value |-> JNum(30), type |-> JStr("gauge"),
              session_id |-> JStr("sB")])

BadMetricBody == ObjectBody([name |-> JStr("fps"), value |-> JStr("fast")])

Request(e, m, h, b) == [endpoint |-> e, method |-> m, headers |-> h, body |-> b]

AllHeaders == {NoHeaders, HeadersOf("s1", "c1"), HeadersOf("s2", "c2")}

\* the requests the server is offered
RequestPool ==
  {Request(EventsPath, "POST", h, LevelChangeBody) : h \in AllHeaders}
  \cup
  {Request(EventsPath, "POST", HeadersOf("s1", "c1"), b) :
      b \in {ScoreChangeBody, SpanBody, EmptyObjectBody, UnreadableBody,
             GarbageBody, BadEventBody}}
  \cup
  {Request(EventsPath, "POST", HeadersOf("s2", "c2"), b) :
      b \in {GameStartBody, NullBody, ScalarBody, BadTimeBody}}
  \cup
  {Request(MetricsPath, "POST", HeadersOf("s1", "c1"), b) :
      b \in {FpsBody, UnreadableBody, BadMetricBody}}
  \cup
  {Request(MetricsPath, "POST", HeadersOf("s2", "c2"), b) :
      b \in {FramesBody, GarbageBody}}
  \cup
  {Request(MetricsPath, "POST", NoHeaders, FpsBody)}
  \cup
  {Request(e, "OPTIONS", NoHeaders, GarbageBody) : e \in {EventsPath, MetricsPath}}

\* the requests offered to the server started by main: /health under three
\* methods, preflights to the five routes behind corsMiddleware, and
\* telemetry posts
RoutePool ==
  {Request(HealthPath, m, NoHeaders, NullBody) : m \in {"GET", "POST", "OPTIONS"}}
  \cup
  {Request(e, "OPTIONS", NoHeaders, GarbageBody) :
      e \in {EventsPath, MetricsPath} \cup StaticPaths}
  \cup
  {Request(EventsPath, "POST", HeadersOf("s1", "c1"), LevelChangeBody)}
  \cup
  {Request(MetricsPath, "POST", HeadersOf("s2", "c2"), b) :
      b \in {FramesBody, FramesLowBody}}
  \cup
  {Request(MetricsPath, "POST", HeadersOf("s1", "c1"), b) :
      b \in {FpsBody, FpsLowBody}}

(* ------------------------- server: primitives ------------------------- *)

\* a fresh http.ResponseWriter
NewResponse == [header |-> EmptyFn, status |-> 0, writeHeaderCalls |-> 0, body |-> <<>>]

\* w.Header().Set(k, v); headers set after the status line are not sent
SetHeader(w, k, v) ==
  IF w.status = 0 THEN [w EXCEPT !.header = Put(@, k, v)] ELSE w

\* w.WriteHeader(code): only the first call fixes the status
WriteHeader(w, code) ==
  [w EXCEPT !.status = IF @ = 0 THEN code ELSE @, !.writeHeaderCalls = @ + 1]

\* w.Write(text): writes the status 200 first when none was written
WriteBody(w, text) ==
  [w EXCEPT !.status = IF @ = 0 THEN 200 ELSE @, !.body = Append(@, text)]

\* http.Error(w, text, code)
HttpError(w, text, code) ==
  WriteBody(WriteHeader(SetHeader(w, "Content-Type", "text/plain; charset=utf-8"), code), text)

\* ctx, span := tracer.Start(ctx, name)
StartedSpan(name) ==
  [name |-> name, started |-> 1, ended |-> 0, attrs |-> EmptyFn,
   status |-> "Unset", errors |-> 0]

NoSpan == [name |-> "", started |-> 0, ended |-> 0, attrs |-> EmptyFn,
           status |-> "Unset", errors |-> 0]

\* an error path that ends the span itself although End is deferred
SpanFailEnds(sp) == [sp EXCEPT !.errors = @ + 1, !.status = "Error", !.ended = @ + 1]

\* span.RecordError(err); span.SetStatus(codes.Error, ...)
SpanFail(sp) == [sp EXCEPT !.errors = @ + 1, !.status = "Error"]

\* the deferred span.End()
SpanEnd(sp) == [sp EXCEPT !.ended = @ + 1]

LogLine(level, msg, fields) == [level |-> level, msg |-> msg, fields |-> fields]

\* an Add that stores instead of adding
CounterAddLost(c, label, n) == Put(c, label, n)

\* counter.Add(ctx, n, metric.WithAttributes(label)): atomic in the SDK
CounterAdd(c, label, n) ==
  IF label \in DOMAIN c THEN [c EXCEPT ![label] = @ + n] ELSE Put(c, label, n)

\* gauge.Record(ctx, v, metric.WithAttributes(label)): last value wins
GaugeRecord(g, label, v) == Put(g, label, v)

NoLocals == [body |-> NullBody, clientEvent |-> ZeroEvent, clientMetric |-> ZeroMetric,
             sessionID |-> "", correlationID |-> ""]

(* --------------------- server: handler building blocks ---------------- *)

\* a counter label that takes the session from the decoded body
EventCounterLabelFromBody(ev, sid) == [event_type |-> ev.Type, session_id |-> ev.SessionID]

\* the attribute set of one client_events_total series
EventCounterLabel(ev, sid) == [event_type |-> ev.Type, session_id |-> sid]

\* the attribute set of a game_metrics series written by the events handler
BusinessLabel(metricType, sid) == [metric_type |-> metricType, session_id |-> sid]

\* a gauge label that takes the session from the decoded body
ClientMetricLabelFromBody(m, sid) ==
  [metric_type |-> m.Name, session_id |-> m.SessionID, source |-> "client"]

\* the attribute set of a game_metrics series written by the metrics handler
ClientMetricLabel(m, sid) ==
  [metric_type |-> m.Name, session_id |-> sid, source |-> "client"]

\* a switch whose level_change and score_change cases record the other field
RecordBusinessMetricsSwapped(g, ev, sid) ==
  CASE ev.Type = "level_change" ->
         GaugeRecord(g, BusinessLabel("current_level", sid), ev.Score)
    [] ev.Type = "score_change" ->
         GaugeRecord(g, BusinessLabel("current_score", sid), ev.Level)
    [] ev.Type = "game_start" ->
         GaugeRecord(g, BusinessLabel("game_sessions", sid), 1)
    [] OTHER -> g

\* a switch with a default case that records the event type
RecordBusinessMetricsDefault(g, ev, sid) ==
  CASE ev.Type = "level_change" ->
         GaugeRecord(g, BusinessLabel("current_level", sid), ev.Level)
    [] ev.Type = "score_change" ->
         GaugeRecord(g, BusinessLabel("current_score", sid), ev.Score)
    [] ev.Type = "game_start" ->
         GaugeRecord(g, BusinessLabel("game_sessions", sid), 1)
    [] OTHER -> GaugeRecord(g, BusinessLabel(ev.Type, sid), 1)

\* switch clientEvent.Type { ... } of the events handler
RecordBusinessMetrics(g, ev, sid) ==
  CASE ev.Type = "level_change" ->
         GaugeRecord(g, BusinessLabel("current_level", sid), ev.Level)
    [] ev.Type = "score_change" ->
         GaugeRecord(g, BusinessLabel("current_score", sid), ev.Score)
    [] ev.Type = "game_start" ->
         GaugeRecord(g, BusinessLabel("game_sessions", sid), 1)
    [] OTHER -> g

\* a Record that merges counter-kind values so that the series never decreases
RecordClientMetricMonotone(g, m, sid) ==
  IF /\ m.Type = "counter"
     /\ ClientMetricLabel(m, sid) \in DOMAIN g
     /\ g[ClientMetricLabel(m, sid)] > m.Value
    THEN g
    ELSE GaugeRecord(g, ClientMetricLabel(m, sid), m.Value)

\* a Record that only takes metrics of kind gauge
RecordClientMetricGaugeOnly(g, m, sid) ==
  IF m.Type = "gauge" THEN GaugeRecord(g, ClientMetricLabel(m, sid), m.Value) ELSE g

\* gameMetricsGauge.Record of the metrics handler
RecordClientMetric(g, m, sid) == GaugeRecord(g, ClientMetricLabel(m, sid), m.Value)

\* span.SetAttributes(...) of the events handler
EventSpanAttrs(ev, sid, cid) ==
  ("client.event.type" :> JStr(ev.Type)) @@
  ("client.session_id" :> JStr(sid)) @@
  ("client.correlation_id" :> JStr(cid)) @@
  ("client.event.level" :> JNum(ev.Level)) @@
  ("client.event.score" :> JNum(ev.Score))

\* logger.InfoContext(ctx, "Client telemetry event received", ...)
EventLogFields(ev, sid, cid) ==
  [event_type       |-> JStr(ev.Type),
   session_id       |-> JStr(sid),
   correlation_id   |-> JStr(cid),
   level            |-> JNum(ev.Level),
   score            |-> JNum(ev.Score),
   data             |-> JStr(ev.Data),
   client_timestamp |-> JNum(ev.Timestamp)]

\* span.SetAttributes(...) of the metrics handler
MetricSpanAttrs(m, sid, cid) ==
  ("client.metric.name" :> JStr(m.Name)) @@
  ("client.metric.type" :> JStr(m.Type)) @@
  ("client.metric.value" :> JNum(m.Value)) @@
  ("client.session_id" :> JStr(sid)) @@
  ("client.correlation_id" :> JStr(cid))

\* logger.InfoContext(ctx, "Client telemetry metric received", ...)
MetricLogFields(m, sid, cid) ==
  [metric_name      |-> JStr(m.Name),
   metric_type      |-> JStr(m.Type),
   metric_value     |-> JNum(m.Value),
   session_id       |-> JStr(sid),
   correlation_id   |-> JStr(cid),
   client_timestamp |-> JNum(m.Timestamp)]

\* an acknowledgement sent with status 202
RespondAccepted(w) ==
  WriteBody(WriteHeader(SetHeader(w, "Content-Type", "application/json"), 202),
            [status |-> "received"])

\* Content-Type, WriteHeader(200) and the encoded acknowledgement
RespondReceived(w) ==
  WriteBody(WriteHeader(SetHeader(w, "Content-Type", "application/json"), 200),
            [status |-> "received"])

\* a middleware that does not allow the Content-Type request header
CorsHeadersNoAllowHeaders(w) ==
  SetHeader(SetHeader(w,
    "Access-Control-Allow-Origin", "*"),
    "Access-Control-Allow-Methods", "GET, POST, OPTIONS")

\* the three headers corsMiddleware sets on every response
CorsHeaders(w) ==
  SetHeader(SetHeader(SetHeader(w,
    "Access-Control-Allow-Origin", "*"),
    "Access-Control-Allow-Methods", "GET, POST, OPTIONS"),
    "Access-Control-Allow-Headers", "Content-Type")

ErrorFields == [error |-> JStr("err")]

\* HealthResponse{Status: "healthy", Timestamp: time.Now(), Service: ...}
HealthResponse(now) ==
  [status |-> "healthy", timestamp |-> FormatTime(now),
   service |-> "incident-commander-game"]

\* a health handler that only answers GET
HealthCheckResponseGetOnly(w, r, now, encodeFails) ==
  IF req[r].method # "GET"
    THEN HttpError(w, "Method Not Allowed", 405)
    ELSE WriteBody(SetHeader(SetHeader(w,
                     "Content-Type", "application/json"),
                     "Access-Control-Allow-Origin", "*"),
                   HealthResponse(now))

\* what healthCheckHandler does to the ResponseWriter of request r: two
\* headers, the encoded HealthResponse (Write sends status 200 first), and on
\* a failed write http.Error, whose status comes too late to count
HealthCheckResponse(w, r, now, encodeFails) ==
  LET written == WriteBody(SetHeader(SetHeader(w,
                             "Content-Type", "application/json"),
                             "Access-Control-Allow-Origin", "*"),
                           HealthResponse(now))
  IN IF encodeFails
       THEN HttpError(written, "Internal Server Error", 500)
       ELSE written

\* a startup that carries on without the instrument it could not create
FatalIgnored(m) == [m EXCEPT !.next = @ + 1]

\* log.Fatal: the process exits
Fatal(m) == [m EXCEPT !.pc = "fatal"]

(* --------------------------- server: actions -------------------------- *)

Requests == DOMAIN req

\* corsMiddleware on the goroutine of request q: it answers OPTIONS itself,
\* else calls the wrapped handler
ServeHTTP(q) ==
  /\ req' = Append(req, q)
  /\ loc' = Append(loc, NoLocals)
  /\ span' = Append(span, NoSpan)
  /\ IF q.method = "OPTIONS"
       THEN /\ resp' = Append(resp, WriteHeader(CorsHeaders(NewResponse), 200))
            /\ logs' = Append(logs,
                 <<LogLine("INFO", "CORS preflight request",
                           [path |-> JStr(q.endpoint),
                            origin |-> JStr(HeaderGet(q.headers, "Origin"))])>>)
            /\ pc' = Append(pc, "done")
       ELSE /\ resp' = Append(resp, CorsHeaders(NewResponse))
            /\ logs' = Append(logs, <<>>)
            /\ pc' = Append(pc, "start")
  /\ UNCHANGED <<clientEventCounter, gameMetricsGauge>>
  /\ UNCHANGED startupVars

\* A request arrives at a telemetry route and corsMiddleware runs on its
\* goroutine.
CorsMiddleware ==
  /\ Len(req) < MaxReq
  /\ \E q \in RequestPool : ServeHTTP(q)
  /\ UNCHANGED clientVars

\* main creates its next instrument; an error ends the process
CreateInstrument ==
  /\ main.pc = "init"
  /\ main.next <= Len(Instruments)
  /\ \E failed \in BOOLEAN :
       main' = IF failed
                 THEN Fatal(main)
                 ELSE [main EXCEPT !.created = @ \cup {Instruments[main.next]},
                                   !.next = @ + 1]
  /\ UNCHANGED <<req, pc, loc, span, logs, resp, clientEventCounter,
                 gameMetricsGauge, healthCheckCount>>
  /\ UNCHANGED clientVars

\* main registers the routes with http.Handle
RegisterRoutes ==
  /\ main.pc = "init"
  /\ main.next > Len(Instruments)
  /\ main' = [main EXCEPT !.pc = "routes", !.routes = Routes]
  /\ UNCHANGED <<req, pc, loc, span, logs, resp, clientEventCounter,
                 gameMetricsGauge, healthCheckCount>>
  /\ UNCHANGED clientVars

\* http.ListenAndServe(":8080", nil)
ListenAndServe ==
  /\ main.pc = "routes"
  /\ main' = [main EXCEPT !.pc = "listening"]
  /\ UNCHANGED <<req, pc, loc, span, logs, resp, clientEventCounter,
                 gameMetricsGauge, healthCheckCount>>
  /\ UNCHANGED clientVars

\* the listening server accepts a request and dispatches it by its route:
\* /health goes to healthCheckHandler, the others through corsMiddleware
Accept ==
  /\ main.pc = "listening"
  /\ Len(req) < MaxReq
  /\ \E q \in RoutePool :
       /\ q.endpoint \in main.routes
       /\ IF q.endpoint = HealthPath
            THEN /\ req' = Append(req, q)
                 /\ loc' = Append(loc, NoLocals)
                 /\ span' = Append(span, NoSpan)
                 /\ resp' = Append(resp, NewResponse)
                 /\ logs' = Append(logs, <<>>)
                 /\ pc' = Append(pc, "start")
                 /\ UNCHANGED <<clientEventCounter, gameMetricsGauge>>
                 /\ UNCHANGED startupVars
            ELSE ServeHTTP(q)
  /\ UNCHANGED clientVars

\* healthCheckHandler
HealthCheck(r) ==
  /\ pc[r] = "start"
  /\ req[r].endpoint = HealthPath
  /\ \E now \in 1..MaxClock, encodeFails \in BOOLEAN :
       LET sp == [StartedSpan("health_check") EXCEPT !.attrs =
                    ("health.status" :> JStr("healthy")) @@
                    ("health.service" :> JStr("incident-commander-game"))]
           requested == LogLine("INFO", "Health check requested",
                                [remote_addr |-> JStr(""), user_agent |-> JStr("")])
       IN /\ healthCheckCount' = healthCheckCount + 1
          /\ resp' = [resp EXCEPT ![r] = HealthCheckResponse(@, r, now, encodeFails)]
          /\ IF encodeFails
               THEN /\ span' = [span EXCEPT ![r] = SpanEnd(SpanFail(sp))]
                    /\ logs' = [logs EXCEPT ![r] = @ \o
                         <<requested,
                           LogLine("ERROR", "Failed to encode health response",
                                   ErrorFields)>>]
               ELSE /\ span' = [span EXCEPT ![r] = SpanEnd(sp)]
                    /\ logs' = [logs EXCEPT ![r] = @ \o
                         <<requested,
                           LogLine("INFO", "Health check completed successfully",
                                   EmptyFn)>>]
  /\ pc' = [pc EXCEPT ![r] = "done"]
  /\ UNCHANGED <<req, loc, clientEventCounter, gameMetricsGauge, main>>
  /\ UNCHANGED clientVars

\* clientTelemetryEventsHandler up to the log line: tracer.Start,
\* io.ReadAll, json.Unmarshal, the headers, the span attributes
EventsDecode(r) ==
  /\ pc[r] = "start"
  /\ req[r].endpoint = EventsPath
  /\ LET sp == StartedSpan("process_client_telemetry_event")
         b  == req[r].body
     IN IF b.kind = "unreadable"
          THEN /\ span' = [span EXCEPT ![r] = SpanEnd(SpanFail(sp))]
               /\ logs' = [logs EXCEPT ![r] = Append(@,
                    LogLine("ERROR", "Failed to read telemetry event body", ErrorFields))]
               /\ resp' = [resp EXCEPT ![r] = HttpError(@, "Bad Request", 400)]
               /\ loc' = loc
               /\ pc' = [pc EXCEPT ![r] = "done"]
          ELSE IF ~UnmarshalEventOk(b)
          THEN /\ span' = [span EXCEPT ![r] = SpanEnd(SpanFail(sp))]
               /\ logs' = [logs EXCEPT ![r] = Append(@,
                    LogLine("ERROR", "Failed to unmarshal client event", ErrorFields))]
               /\ resp' = [resp EXCEPT ![r] = HttpError(@, "Bad Request", 400)]
               /\ loc' = [loc EXCEPT ![r].body = b]
               /\ pc' = [pc EXCEPT ![r] = "done"]
          ELSE LET ev  == UnmarshalEvent(b)
                   sid == HeaderGet(req[r].headers, "X-Session-ID")
                   cid == HeaderGet(req[r].headers, "X-Correlation-ID")
               IN /\ loc' = [loc EXCEPT ![r] =
                       [body |-> b, clientEvent |-> ev, clientMetric |-> ZeroMetric,
                        sessionID |-> sid, correlationID |-> cid]]
                  /\ span' = [span EXCEPT ![r] =
                       [sp EXCEPT !.attrs = EventSpanAttrs(ev, sid, cid)]]
                  /\ logs' = [logs EXCEPT ![r] = Append(@,
                       LogLine("INFO", "Client telemetry event received",
                               EventLogFields(ev, sid, cid)))]
                  /\ resp' = resp
                  /\ pc' = [pc EXCEPT ![r] = "count"]
  /\ UNCHANGED <<req, clientEventCounter, gameMetricsGauge>>
  /\ UNCHANGED startupVars
  /\ UNCHANGED clientVars

\* a handler that assumes monotonic arrival: it does not count an event
\* older than one it has counted already
EventsCountMonotonic(r) ==
  /\ pc[r] = "count"
  /\ req[r].endpoint = EventsPath
  /\ clientEventCounter' =
       IF \E q \in Requests :
            /\ q # r
            /\ req[q].endpoint = EventsPath
            /\ pc[q] \in {"gauge", "done"}
            /\ loc[q].clientEvent.Timestamp > loc[r].clientEvent.Timestamp
         THEN clientEventCounter
         ELSE CounterAdd(clientEventCounter,
                         EventCounterLabel(loc[r].clientEvent, loc[r].sessionID), 1)
  /\ pc' = [pc EXCEPT ![r] = "gauge"]
  /\ UNCHANGED <<req, loc, span, logs, resp, gameMetricsGauge>>
  /\ UNCHANGED startupVars
  /\ UNCHANGED clientVars

\* clientTelemetryEventsHandler: clientEventCounter.Add
EventsCount(r) ==
  /\ pc[r] = "count"
  /\ req[r].endpoint = EventsPath
  /\ clientEventCounter' =
       CounterAdd(clientEventCounter,
                  EventCounterLabel(loc[r].clientEvent, loc[r].sessionID), 1)
  /\ pc' = [pc EXCEPT ![r] = "gauge"]
  /\ UNCHANGED <<req, loc, span, logs, resp, gameMetricsGauge>>
  /\ UNCHANGED startupVars
  /\ UNCHANGED clientVars

\* clientTelemetryEventsHandler: the business metrics switch, then the
\* acknowledgement and the deferred span.End
EventsFinish(r) ==
  /\ pc[r] = "gauge"
  /\ req[r].endpoint = EventsPath
  /\ gameMetricsGauge' =
       RecordBusinessMetrics(gameMetricsGauge, loc[r].clientEvent, loc[r].sessionID)
  /\ resp' = [resp EXCEPT ![r] = RespondReceived(@)]
  /\ span' = [span EXCEPT ![r] = SpanEnd(@)]
  /\ pc' = [pc EXCEPT ![r] = "done"]
  /\ UNCHANGED <<req, loc, logs, clientEventCounter>>
  /\ UNCHANGED startupVars
  /\ UNCHANGED clientVars

\* clientTelemetryMetricsHandler up to the log line: tracer.Start,
\* io.ReadAll, json.Unmarshal, the headers, the span attributes
MetricsDecode(r) ==
  /\ pc[r] = "start"
  /\ req[r].endpoint = MetricsPath
  /\ LET sp == StartedSpan("process_client_telemetry_metric")
         b  == req[r].body
     IN IF b.kind = "unreadable"
          THEN /\ span' = [span EXCEPT ![r] = SpanEnd(SpanFail(sp))]
               /\ logs' = [logs EXCEPT ![r] = Append(@,
                    LogLine("ERROR", "Failed to read telemetry metric body", ErrorFields))]
               /\ resp' = [resp EXCEPT ![r] = HttpError(@, "Bad Request", 400)]
               /\ loc' = loc
               /\ pc' = [pc EXCEPT ![r] = "done"]
          ELSE IF ~UnmarshalMetricOk(b)
          THEN /\ span' = [span EXCEPT ![r] = SpanEnd(SpanFail(sp))]
               /\ logs' = [logs EXCEPT ![r] = Append(@,
                    LogLine("ERROR", "Failed to unmarshal client metric", ErrorFields))]
               /\ resp' = [resp EXCEPT ![r] = HttpError(@, "Bad Request", 400)]
               /\ loc' = [loc EXCEPT ![r].body = b]
               /\ pc' = [pc EXCEPT ![r] = "done"]
          ELSE LET m   == UnmarshalMetric(b)
                   sid == HeaderGet(req[r].headers, "X-Session-ID")
                   cid == HeaderGet(req[r].headers, "X-Correlation-ID")
               IN /\ loc' = [loc EXCEPT ![r] =
                       [body |-> b, clientEvent |-> ZeroEvent, clientMetric |-> m,
                        sessionID |-> sid, correlationID |-> cid]]
                  /\ span' = [span EXCEPT ![r] =
                       [sp EXCEPT !.attrs = MetricSpanAttrs(m, sid, cid)]]
                  /\ logs' = [logs EXCEPT ![r] = Append(@,
                       LogLine("INFO", "Client telemetry metric received",
                               MetricLogFields(m, sid, cid)))]
                  /\ resp' = resp
                  /\ pc' = [pc EXCEPT ![r] = "gauge"]
  /\ UNCHANGED <<req, clientEventCounter, gameMetricsGauge>>
  /\ UNCHANGED startupVars
  /\ UNCHANGED clientVars

\* clientTelemetryMetricsHandler: gameMetricsGauge.Record, then the
\* acknowledgement and the deferred span.End
MetricsFinish(r) ==
  /\ pc[r] = "gauge"
  /\ req[r].endpoint = MetricsPath
  /\ gameMetricsGauge' =
       RecordClientMetric(gameMetricsGauge, loc[r].clientMetric, loc[r].sessionID)
  /\ resp' = [resp EXCEPT ![r] = RespondReceived(@)]
  /\ span' = [span EXCEPT ![r] = SpanEnd(@)]
  /\ pc' = [pc EXCEPT ![r] = "done"]
  /\ UNCHANGED <<req, loc, logs, clientEventCounter>>
  /\ UNCHANGED startupVars
  /\ UNCHANGED clientVars

(* --------------------------- client: helpers -------------------------- *)

\* a value json.Marshal rejects (a channel, a func, NaN)
Unsupported == [t |-> "unsupported"]

\* whether the browser exposes the crypto object
CryptoAvailable == TRUE

\* generateSessionID: 16 random bytes in hex, or the clock when the browser
\* has no crypto object
generateSessionID(now) ==
  IF CryptoAvailable THEN "session_0f3a9c" ELSE "session_" \o ToString(now)

\* generateCorrelationID
generateCorrelationID(now) == "corr_" \o ToString(now) \o "_" \o ToString(now)

\* generateTraceID
generateTraceID(now) == "trace_" \o ToString(now)

\* generateSpanID
generateSpanID(now) == "span_" \o ToString(now)

\* json.Marshal fails on a map holding an unsupported value
MarshalMapOk(m) == \A k \in DOMAIN m.kv : m.kv[k] # Unsupported

\* the members json.Marshal writes for a ClientEvent; omitempty drops zero
\* numbers, empty strings and empty or nil maps
MarshalEvent(ev) ==
  LET always == [type           |-> JStr(ev.Type),
                 timestamp      |-> JStr(FormatTime(ev.Timestamp)),
                 session_id     |-> JStr(ev.SessionID),
                 correlation_id |-> JStr(ev.CorrelationID)]
      level  == IF ev.Level # 0 THEN [level |-> JNum(ev.Level)] ELSE EmptyFn
      score  == IF ev.Score # 0 THEN [score |-> JNum(ev.Score)] ELSE EmptyFn
      data   == IF ev.Data # "" THEN [data |-> JStr(ev.Data)] ELSE EmptyFn
      attrs  == IF DOMAIN ev.Attributes.kv # {}
                  THEN [attributes |-> JObj(ev.Attributes.kv)] ELSE EmptyFn
      trace  == IF ev.TraceID # "" THEN [trace_id |-> JStr(ev.TraceID)] ELSE EmptyFn
      spanid == IF ev.SpanID # "" THEN [span_id |-> JStr(ev.SpanID)] ELSE EmptyFn
  IN ObjectBody(always @@ level @@ score @@ data @@ attrs @@ trace @@ spanid)

\* the members json.Marshal writes for a ClientMetric
MarshalMetric(m) ==
  LET always == [name       |-> JStr(m.Name),
                 value      |-> JNum(m.Value),
                 type       |-> JStr(m.Type),
                 timestamp  |-> JStr(FormatTime(m.Timestamp)),
                 session_id |-> JStr(m.SessionID)]
      labels == IF DOMAIN m.Labels.kv # {}
                  THEN [labels |-> JObj(m.Labels.kv)] ELSE EmptyFn
  IN ObjectBody(always @@ labels)

\* no request issued yet
NoRequest == [url |-> "", method |-> "", headers |-> EmptyFn, body |-> NullBody]

\* the goroutine started by `go ct.sendToServer(endpoint, data)`;
\* caller records which call of the emitting thread started it, fetches
\* counts the calls of fetch made for it
Goroutine(endpoint, data, op, h) ==
  [endpoint |-> endpoint, data |-> data, state |-> "spawned",
   caller |-> [op |-> op, h |-> h], request |-> NoRequest, fetches |-> 0]

\* json.Marshal returned an error: console.error, return
MarshalFailed(gr) == [gr EXCEPT !.state = "marshal_failed"]

\* a transport that runs sendToServer again after a rejected fetch
RejectedRetry(gr) == [gr EXCEPT !.state = "spawned"]

\* the promise of fetch was rejected: the catch callback logs to console.error
Rejected(gr) == [gr EXCEPT !.state = "failed"]

\* a buffer that keeps the latest event only
AppendToBufferLatestOnly(buf, event) == <<event>>

\* ct.events = append(ct.events, event)
AppendToBuffer(buf, event) == Append(buf, event)

\* sendEvent
sendEvent(q, event, op, h) == Append(q, Goroutine(EventsPath, event, op, h))

\* a transport that strips the session from the metric it is handed
sendMetricAnonymous(q, metric) ==
  Append(q, Goroutine(MetricsPath, [metric EXCEPT !.SessionID = ""], "RecordMetric", 0))

\* sendMetric
sendMetric(q, metric) == Append(q, Goroutine(MetricsPath, metric, "RecordMetric", 0))

\* a merge in which the two automatic members win over the span's attributes
SpanEventAttributesAutoWins(sp, endTime) ==
  LET auto == [duration_ms    |-> JNum(endTime - sp.StartTime),
               operation_name |-> JStr(sp.OperationName)]
  IN MakeMap(auto @@ sp.Attributes.kv)

\* the attributes of the event End builds: the two automatic members, then
\* every span attribute written over them
SpanEventAttributes(sp, endTime) ==
  LET auto == [duration_ms    |-> JNum(endTime - sp.StartTime),
               operation_name |-> JStr(sp.OperationName)]
  IN MakeMap(sp.Attributes.kv @@ auto)

\* a span event scoped to the correlation id the client was constructed with
SpanEventFirstCorrelation(sp, endTime, cid) ==
  [Type          |-> "span",
   Timestamp     |-> sp.StartTime,
   SessionID     |-> sp.SessionID,
   CorrelationID |-> generateCorrelationID(1),
   Level         |-> 0,
   Score         |-> 0,
   Data          |-> sp.OperationName,
   Attributes    |-> SpanEventAttributes(sp, endTime),
   TraceID       |-> sp.TraceID,
   SpanID        |-> sp.SpanID]

\* the event End builds
SpanEvent(sp, endTime, cid) ==
  [Type          |-> "span",
   Timestamp     |-> sp.StartTime,
   SessionID     |-> sp.SessionID,
   CorrelationID |-> cid,
   Level         |-> 0,
   Score         |-> 0,
   Data          |-> sp.OperationName,
   Attributes    |-> SpanEventAttributes(sp, endTime),
   TraceID       |-> sp.TraceID,
   SpanID        |-> sp.SpanID]

(* --------------------------- client: inputs --------------------------- *)

\* arguments the emitting thread passes to LogEvent
LogEventArgs ==
  {[eventType |-> "level_change", level |-> 5, score |-> 3, data |-> "Advanced",
    attributes |-> MakeMap([source |-> JStr("client_game")])],
   [eventType |-> "game_start", level |-> 0, score |-> 0, data |-> "",
    attributes |-> NilMap]}

\* every combination of zero and non-zero optional arguments LogEvent takes
RoundTripArgs ==
  [eventType  : {"level_change", "game_start"},
   level      : {0, 5},
   score      : {0, 3},
   data       : {"", "Advanced"},
   attributes : {NilMap, MakeMap(EmptyFn),
                 MakeMap([source |-> JStr("client_game")]),
                 MakeMap([level |-> JNum(0), note |-> JStr("")])}]

\* arguments the emitting thread passes to RecordMetric
RecordMetricArgs ==
  {[name |-> "fps", value |-> 60, metricType |-> "gauge",
    labels |-> MakeMap([level |-> JNum(1)])],
   [name |-> "fps", value |-> 30, metricType |-> "gauge",
    labels |-> MakeMap([probe |-> Unsupported])],
   [name |-> "frames_rendered_total", value |-> 100, metricType |-> "counter",
    labels |-> NilMap]}

OperationNames == {"game_loop_iteration"}

\* arguments the emitting thread passes to SetAttribute
SetAttributeArgs ==
  {[key |-> "level", value |-> JNum(2)],
   [key |-> "level", value |-> JNum(3)],
   [key |-> "duration_ms", value |-> JStr("overridden")]}

\* arguments the emitting thread passes to SetCorrelationID
CorrelationIDArgs == {"", "corr_next"}

\* the readings time.Now() can return from now on
Readings == clock..MaxClock

(* --------------------------- client: actions -------------------------- *)

Spans == DOMAIN spans

\* a LogEvent that returns only once the sends started before it have settled
LogEventAwaitsSends ==
  /\ \A g \in DOMAIN sends : sends[g].state \in {"marshal_failed", "failed"}
  /\ ops < MaxOps
  /\ ops' = ops + 1
  /\ \E a \in LogEventArgs, now \in Readings :
       LET event == [Type          |-> a.eventType,
                     Timestamp     |-> now,
                     SessionID     |-> sessionID,
                     CorrelationID |-> correlationID,
                     Level         |-> a.level,
                     Score         |-> a.score,
                     Data          |-> a.data,
                     Attributes    |-> a.attributes,
                     TraceID       |-> "",
                     SpanID        |-> ""]
       IN /\ events' = AppendToBuffer(events, event)
          /\ sends' = sendEvent(sends, event, "LogEvent", 0)
          /\ clock' = now
  /\ UNCHANGED <<sessionID, correlationID, metrics, spans>>
  /\ UNCHANGED inputVars
  /\ UNCHANGED serverVars

\* ClientTelemetry.LogEvent
LogEvent ==
  /\ ops < MaxOps
  /\ ops' = ops + 1
  /\ \E a \in LogEventArgs, now \in Readings :
       LET event == [Type          |-> a.eventType,
                     Timestamp     |-> now,
                     SessionID     |-> sessionID,
                     CorrelationID |-> correlationID,
                     Level         |-> a.level,
                     Score         |-> a.score,
                     Data          |-> a.data,
                     Attributes    |-> a.attributes,
                     TraceID       |-> "",
                     SpanID        |-> ""]
       IN /\ events' = AppendToBuffer(events, event)
          /\ sends' = sendEvent(sends, event, "LogEvent", 0)
          /\ clock' = now
  /\ UNCHANGED <<sessionID, correlationID, metrics, spans>>
  /\ UNCHANGED inputVars
  /\ UNCHANGED serverVars

\* ClientTelemetry.RecordMetric
RecordMetric ==
  /\ ops < MaxOps
  /\ ops' = ops + 1
  /\ \E a \in RecordMetricArgs, now \in Readings :
       LET metric == [Name      |-> a.name,
                      Value     |-> a.value,
                      Type      |-> a.metricType,
                      Timestamp |-> now,
                      SessionID |-> sessionID,
                      Labels    |-> a.labels]
       IN /\ metrics' = Put(metrics, a.name, a.value)
          /\ sends' = sendMetric(sends, metric)
          /\ clock' = now
  /\ UNCHANGED <<sessionID, correlationID, events, spans>>
  /\ UNCHANGED inputVars
  /\ UNCHANGED serverVars

\* ClientTelemetry.StartSpan: three successive readings of the clock
StartSpan ==
  /\ ops < MaxOps
  /\ ops' = ops + 1
  /\ \E name \in OperationNames, t1 \in Readings :
       \E t2 \in t1..MaxClock :
         \E t3 \in t2..MaxClock :
           /\ spans' = Append(spans,
                [TraceID       |-> generateTraceID(t1),
                 SpanID        |-> generateSpanID(t2),
                 ParentSpanID  |-> "",
                 OperationName |-> name,
                 StartTime     |-> t3,
                 EndTime       |-> 0,
                 SessionID     |-> sessionID,
                 Attributes    |-> NilMap])
           /\ clock' = t3
  /\ UNCHANGED <<sessionID, correlationID, events, metrics, sends>>
  /\ UNCHANGED inputVars
  /\ UNCHANGED serverVars

\* ClientSpan.SetAttribute
SetAttribute(h) ==
  /\ ops < MaxOps
  /\ ops' = ops + 1
  /\ \E a \in SetAttributeArgs :
       spans' = [spans EXCEPT ![h].Attributes = MakeMap(Put(@.kv, a.key, a.value))]
  /\ UNCHANGED <<sessionID, correlationID, events, metrics, clock, sends>>
  /\ UNCHANGED inputVars
  /\ UNCHANGED serverVars

\* ClientSpan.End
End(h) ==
  /\ ops < MaxOps
  /\ ops' = ops + 1
  /\ \E now \in Readings :
       /\ spans' = [spans EXCEPT ![h].EndTime = now]
       /\ sends' = sendEvent(sends, SpanEvent(spans[h], now, correlationID), "End", h)
       /\ clock' = now
  /\ UNCHANGED <<sessionID, correlationID, events, metrics>>
  /\ UNCHANGED inputVars
  /\ UNCHANGED serverVars

\* ClientTelemetry.SetCorrelationID
SetCorrelationID ==
  /\ ops < MaxOps
  /\ ops' = ops + 1
  /\ \E id \in CorrelationIDArgs : correlationID' = id
  /\ UNCHANGED <<sessionID, events, metrics, spans, clock, sends>>
  /\ UNCHANGED inputVars
  /\ UNCHANGED serverVars

\* ClientTelemetry.sendToServer, run by a detached goroutine up to fetch
SendToServer(g) ==
  /\ sends[g].state = "spawned"
  /\ LET d  == sends[g].data
         ok == IF sends[g].endpoint = EventsPath
                 THEN MarshalMapOk(d.Attributes) ELSE MarshalMapOk(d.Labels)
     IN IF ~ok
          THEN sends' = [sends EXCEPT ![g] = MarshalFailed(@)]
          ELSE sends' = [sends EXCEPT
                 ![g].state = "fetching",
                 ![g].fetches = @ + 1,
                 ![g].request =
                    [url     |-> sends[g].endpoint,
                     method  |-> "POST",
                     headers |-> ("Content-Type" :> "application/json") @@
                                 HeadersOf(sessionID, correlationID),
                     body    |-> IF sends[g].endpoint = EventsPath
                                   THEN MarshalEvent(d) ELSE MarshalMetric(d)]]
  /\ UNCHANGED <<sessionID, correlationID, events, metrics, spans, clock, ops>>
  /\ UNCHANGED inputVars
  /\ UNCHANGED serverVars

\* a catch callback that re-raises into the emitting thread, which then
\* makes no further call
FetchCatchEscalates(g) ==
  /\ sends[g].state = "fetching"
  /\ sends' = [sends EXCEPT ![g] = Rejected(@)]
  /\ ops' = MaxOps
  /\ UNCHANGED <<sessionID, correlationID, events, metrics, spans, clock>>
  /\ UNCHANGED inputVars
  /\ UNCHANGED serverVars

\* the promise returned by fetch is rejected (network error, server
\* unreachable) and the catch callback of sendToServer runs
FetchCatch(g) ==
  /\ sends[g].state = "fetching"
  /\ sends' = [sends EXCEPT ![g] = Rejected(@)]
  /\ UNCHANGED <<sessionID, correlationID, events, metrics, spans, clock, ops>>
  /\ UNCHANGED inputVars
  /\ UNCHANGED serverVars

\* the request issued by fetch for goroutine g reaches the server
Deliver(g) ==
  /\ sends[g].state = "fetching"
  /\ Len(req) < MaxReq
  /\ ServeHTTP(Request(sends[g].request.url, sends[g].request.method,
                       sends[g].request.headers, sends[g].request.body))
  /\ sends' = [sends EXCEPT ![g].state = "delivered"]
  /\ UNCHANGED <<sessionID, correlationID, events, metrics, spans, clock, ops>>
  /\ UNCHANGED inputVars

(* ---------------------------- input handler --------------------------- *)

\* clientX / clientY of the touches the canvas reports
Coords == {0, 3, 5, 40}

abs(x) == IF x < 0 THEN -x ELSE x

\* the threshold of a swipe
minDistance == 30

\* game.Direction values passed to SetDirection
DirUp == 0
DirDown == 1
DirLeft == 2
DirRight == 3

\* g.SetDirection(d): the game package is not part of the sources; the model
\* keeps the direction last requested
SetDirection(g, d) == [g EXCEPT !.direction = d]

\* g.Pause(): the model counts the calls
Pause(g) == [g EXCEPT !.pauseCalls = @ + 1]

\* touchStartCallback; hasTouch is touches.length > 0
TouchStart(x, y, hasTouch) ==
  /\ inputHandler.touchEventCount < MaxTouches
  /\ inputHandler' =
       IF hasTouch
         THEN [inputHandler EXCEPT !.touchEventCount = @ + 1,
                                   !.touchStartX = x,
                                   !.touchStartY = y]
         ELSE [inputHandler EXCEPT !.touchEventCount = @ + 1]
  /\ UNCHANGED game
  /\ UNCHANGED <<sessionID, correlationID, events, metrics, spans, clock, sends, ops>>
  /\ UNCHANGED serverVars

\* touchEndCallback; hasTouch is changedTouches.length > 0
TouchEnd(x, y, hasTouch) ==
  /\ inputHandler.touchEventCount < MaxTouches
  /\ LET h      == [inputHandler EXCEPT !.touchEventCount = @ + 1]
         deltaX == x - inputHandler.touchStartX
         deltaY == y - inputHandler.touchStartY
     IN IF ~hasTouch
          THEN inputHandler' = h /\ game' = game
        ELSE IF abs(deltaX) > abs(deltaY)
          THEN IF abs(deltaX) > minDistance
                 THEN /\ inputHandler' = [h EXCEPT !.swipeCount = @ + 1]
                      /\ game' = SetDirection(game,
                                    IF deltaX > 0 THEN DirRight ELSE DirLeft)
                 ELSE inputHandler' = h /\ game' = game
        ELSE IF abs(deltaY) > minDistance
          THEN /\ inputHandler' = [h EXCEPT !.swipeCount = @ + 1]
               /\ game' = SetDirection(game, IF deltaY > 0 THEN DirDown ELSE DirUp)
        ELSE IF abs(deltaX) < 10 /\ abs(deltaY) < 10
          THEN /\ inputHandler' = [h EXCEPT !.tapCount = @ + 1]
               /\ game' = Pause(game)
        ELSE inputHandler' = h /\ game' = game
  /\ UNCHANGED <<sessionID, correlationID, events, metrics, spans, clock, sends, ops>>
  /\ UNCHANGED serverVars

(* --------------------------- specifications --------------------------- *)

\* the server's requests and instruments before the first request
InitRequests ==
  /\ req = <<>>
  /\ pc = <<>>
  /\ loc = <<>>
  /\ span = <<>>
  /\ logs = <<>>
  /\ resp = <<>>
  /\ clientEventCounter = EmptyFn
  /\ gameMetricsGauge = EmptyFn
  /\ healthCheckCount = 0

\* the server once main has created the five instruments and listens
InitServer ==
  /\ InitRequests
  /\ main = [pc |-> "listening", next |-> Len(Instruments) + 1,
             created |-> {Instruments[i] : i \in DOMAIN Instruments},
             routes |-> Routes]

\* input.New
InitInput ==
  /\ inputHandler = [touchStartX |-> 0, touchStartY |-> 0, touchEventCount |-> 0,
                     swipeCount |-> 0, tapCount |-> 0]
  /\ game = [direction |-> NoDirection, pauseCalls |-> 0]

\* NewClientTelemetry
InitClient ==
  /\ clock = 1
  /\ sessionID = generateSessionID(1)
  /\ correlationID = generateCorrelationID(1)
  /\ events = <<>>
  /\ metrics = EmptyFn
  /\ spans = <<>>
  /\ sends = <<>>
  /\ ops = 0
  /\ InitInput

Init == InitServer /\ InitClient

\* the server process at the top of main
InitMain ==
  /\ InitRequests
  /\ main = [pc |-> "init", next |-> 1, created |-> {}, routes |-> {}]
  /\ InitClient

\* the ingestion server under a bounded number of concurrent requests
NextServer ==
  \/ CorsMiddleware
  \/ \E r \in Requests : EventsDecode(r)
  \/ \E r \in Requests : EventsCount(r)
  \/ \E r \in Requests : EventsFinish(r)
  \/ \E r \in Requests : MetricsDecode(r)
  \/ \E r \in Requests : MetricsFinish(r)

Spec == Init /\ [][NextServer]_vars

\* the client library driven by one emitting thread
NextClient ==
  \/ LogEvent
  \/ RecordMetric
  \/ StartSpan
  \/ \E h \in Spans : SetAttribute(h)
  \/ \E h \in Spans : End(h)
  \/ SetCorrelationID
  \/ \E g \in DOMAIN sends : SendToServer(g)
  \/ \E g \in DOMAIN sends : FetchCatch(g)

SpecClient == Init /\ [][NextClient]_vars

\* events from the client's LogEvent through the detached sends and the
\* network to the events handler
NextPipeline ==
  \/ LogEvent
  \/ \E g \in DOMAIN sends : SendToServer(g)
  \/ \E g \in DOMAIN sends : Deliver(g)
  \/ \E r \in Requests : EventsDecode(r)
  \/ \E r \in Requests : EventsCount(r)
  \/ \E r \in Requests : EventsFinish(r)

SpecPipeline == Init /\ [][NextPipeline]_vars

\* the client after its first emitting call: one LogEvent with any
\* combination of optional arguments, or StartSpan, SetAttribute calls and End
InitRoundTrip ==
  /\ InitServer
  /\ InitInput
  /\ sessionID = generateSessionID(1)
  /\ correlationID \in {generateCorrelationID(1)} \cup CorrelationIDArgs
  /\ metrics = EmptyFn
  /\ \/ \E a \in RoundTripArgs, now \in 1..MaxClock :
          LET event == [Type          |-> a.eventType,
                        Timestamp     |-> now,
                        SessionID     |-> sessionID,
                        CorrelationID |-> correlationID,
                        Level         |-> a.level,
                        Score         |-> a.score,
                        Data          |-> a.data,
                        Attributes    |-> a.attributes,
                        TraceID       |-> "",
                        SpanID        |-> ""]
          IN /\ events = AppendToBuffer(<<>>, event)
             /\ sends = sendEvent(<<>>, event, "LogEvent", 0)
             /\ spans = <<>>
             /\ clock = now
             /\ ops = 1
     \/ \E start \in 1..MaxClock, attrs \in {NilMap} \cup
               {MakeMap((a.key :> a.value)) : a \in SetAttributeArgs} :
          \E now \in start..MaxClock :
            LET sp == [TraceID       |-> generateTraceID(start),
                       SpanID        |-> generateSpanID(start),
                       ParentSpanID  |-> "",
                       OperationName |-> "game_loop_iteration",
                       StartTime     |-> start,
                       EndTime       |-> 0,
                       SessionID     |-> sessionID,
                       Attributes    |-> attrs]
            IN /\ events = <<>>
               /\ sends = sendEvent(<<>>, SpanEvent(sp, now, correlationID), "End", 1)
               /\ spans = <<[sp EXCEPT !.EndTime = now]>>
               /\ clock = now
               /\ ops = IF attrs = NilMap THEN 2 ELSE 3

\* one event from the emitting call to the decoded record of the handler
NextRoundTrip ==
  \/ \E g \in DOMAIN sends : SendToServer(g)
  \/ \E g \in DOMAIN sends : Deliver(g)
  \/ \E r \in Requests : EventsDecode(r)
  \/ \E r \in Requests : EventsCount(r)
  \/ \E r \in Requests : EventsFinish(r)

SpecRoundTrip == InitRoundTrip /\ [][NextRoundTrip]_vars

\* the canvas delivers touch events to the callbacks of setupTouchEvents
NextTouch ==
  \/ \E x, y \in Coords, hasTouch \in BOOLEAN : TouchStart(x, y, hasTouch)
  \/ \E x, y \in Coords, hasTouch \in BOOLEAN : TouchEnd(x, y, hasTouch)

SpecTouch == Init /\ [][NextTouch]_vars

\* the server process from the top of main
NextMain ==
  \/ CreateInstrument
  \/ RegisterRoutes
  \/ ListenAndServe
  \/ Accept
  \/ \E r \in Requests : HealthCheck(r)
  \/ \E r \in Requests : EventsDecode(r)
  \/ \E r \in Requests : EventsCount(r)
  \/ \E r \in Requests : EventsFinish(r)
  \/ \E r \in Requests : MetricsDecode(r)
  \/ \E r \in Requests : MetricsFinish(r)

SpecMain == InitMain /\ [][NextMain]_vars

\* one ClientSpan from its construction by StartSpan at the top of the game
\* loop; ops counts the calls made from there on
InitSpan ==
  /\ InitServer
  /\ clock = 1
  /\ sessionID = generateSessionID(1)
  /\ correlationID = generateCorrelationID(1)
  /\ events = <<>>
  /\ metrics = EmptyFn
  /\ spans = <<[TraceID       |-> generateTraceID(1),
                SpanID        |-> generateSpanID(1),
                ParentSpanID  |-> "",
                OperationName |-> "game_loop_iteration",
                StartTime     |-> 1,
                EndTime       |-> 0,
                SessionID     |-> generateSessionID(1),
                Attributes    |-> NilMap]>>
  /\ sends = <<>>
  /\ ops = 0
  /\ InitInput

NextSpan ==
  \/ \E h \in Spans : SetAttribute(h)
  \/ \E h \in Spans : End(h)
  \/ \E g \in DOMAIN sends : SendToServer(g)

SpecSpan == InitSpan /\ [][NextSpan]_vars

(* ------------------------- properties: helpers ------------------------ *)

RECURSIVE SumValues(_, _)
\* the sum of f over the keys in S
SumValues(f, S) ==
  IF S = {} THEN 0
  ELSE LET k == CHOOSE x \in S : TRUE IN f[k] + SumValues(f, S \ {k})

\* the value of a series, 0 when it was never written
SeriesValue(f, label) == IF label \in DOMAIN f THEN f[label] ELSE 0

HeaderSession(r) == HeaderGet(req[r].headers, "X-Session-ID")

HeaderCorrelation(r) == HeaderGet(req[r].headers, "X-Correlation-ID")

\* the handler of r has read and decoded the body without error
Decoded(r) ==
  \/ pc[r] \in {"count", "gauge"}
  \/ pc[r] = "done" /\ span[r].started = 1 /\ span[r].status = "Unset"

\* the handler of r is past clientEventCounter.Add
Counted(r) ==
  /\ req[r].endpoint = EventsPath
  /\ Decoded(r)
  /\ pc[r] # "count"

\* r took a step of its own
Stepped(r) == pc'[r] # pc[r]

\* bodies that cannot be read or are not JSON for the endpoint's record type
Malformed(r) ==
  /\ req[r].method # "OPTIONS"
  /\ \/ req[r].body.kind \in {"unreadable", "garbage", "scalar"}
     \/ req[r].endpoint = EventsPath /\ req[r].body \in {BadEventBody, BadTimeBody}
     \/ req[r].endpoint = MetricsPath /\ req[r].body = BadMetricBody

BusinessTypes == {"level_change", "score_change", "game_start"}

\* the goroutines started so far for metrics, in call order
MetricSends == SelectSeq(sends, LAMBDA gr : gr.endpoint = MetricsPath)

\* the local metric map holds, for every name recorded so far, the value of
\* the latest call with that name, and no other name
MetricMapIsLastWrite ==
  /\ DOMAIN metrics = {MetricSends[i].data.Name : i \in DOMAIN MetricSends}
  /\ \A n \in DOMAIN metrics :
       LET last == CHOOSE i \in DOMAIN MetricSends :
                     /\ MetricSends[i].data.Name = n
                     /\ \A j \in DOMAIN MetricSends :
                          MetricSends[j].data.Name = n => j <= i
       IN metrics[n] = MetricSends[last].data.Value

\* a send that ended in a serialization or transport failure
SendFailed(gr) == gr.state \in {"marshal_failed", "failed"}

RECURSIVE SumFetches(_)
\* the number of requests issued so far by the goroutines in q
SumFetches(q) == IF q = <<>> THEN 0 ELSE Head(q).fetches + SumFetches(Tail(q))

(* ------------------------------ properties ---------------------------- *)

\* C1. A span hands at most one "span" event to the transport, however often
\* End is called on it; once End was called it has handed over exactly one.
C1_SpanEndedOnce ==
  \A h \in Spans :
    LET handed == {g \in DOMAIN sends : sends[g].caller = [op |-> "End", h |-> h]}
    IN /\ Cardinality(handed) <= 1
       /\ spans[h].EndTime # 0 => Cardinality(handed) = 1

\* C2. Every client_events_total series holds the number of event requests
\* decoded so far whose decoded type and X-Session-ID header are its labels:
\* each decoded request adds exactly 1, under its own type.
C2_CounterCountsDecoded ==
  LET labelOf(r) == [event_type |-> loc[r].clientEvent.Type,
                     session_id |-> HeaderSession(r)]
      counted    == {r \in Requests : Counted(r)}
      labels     == DOMAIN clientEventCounter \cup {labelOf(r) : r \in counted}
  IN /\ \A l \in labels :
          SeriesValue(clientEventCounter, l) =
            Cardinality({r \in counted : labelOf(r) = l})
     /\ SumValues(clientEventCounter, DOMAIN clientEventCounter) = Cardinality(counted)

C2_Witness ==
  /\ Len(req) = 2
  /\ \A r \in Requests :
       /\ pc[r] = "done"
       /\ req[r] = Request(EventsPath, "POST", HeadersOf("s1", "c1"), LevelChangeBody)
  /\ clientEventCounter[[event_type |-> "level_change", session_id |-> "s1"]] = 2

\* C3. No step of a request with a malformed body changes client_events_total
\* or game_metrics, and the request ends with status 400.
C3_MalformedRejected ==
  [][\A r \in Requests :
       (Malformed(r) /\ Stepped(r)) =>
          /\ clientEventCounter' = clientEventCounter
          /\ gameMetricsGauge' = gameMetricsGauge
          /\ pc'[r] = "done" => resp'[r].status = 400]_vars

C3_Witness ==
  /\ \E r \in Requests :
       /\ req[r].endpoint = EventsPath
       /\ req[r].body = BadEventBody
       /\ pc[r] = "done"
       /\ resp[r].status = 400
  /\ \E r \in Requests :
       /\ req[r].endpoint = MetricsPath
       /\ req[r].body = GarbageBody
       /\ pc[r] = "done"
       /\ resp[r].status = 400

\* C4. The business-metric step of a decoded event leaves the game_metrics
\* series of the request's session at: the event's level (current_level) for
\* level_change, the event's score (current_score) for score_change, 1
\* (game_sessions) for game_start.
C4_BusinessGauge ==
  [][\A r \in Requests :
       (req[r].endpoint = EventsPath /\ pc[r] = "gauge" /\ pc'[r] = "done") =>
          LET ev == loc[r].clientEvent
              at(metricType) ==
                SeriesValue(gameMetricsGauge',
                            [metric_type |-> metricType, session_id |-> HeaderSession(r)])
              has(metricType) ==
                [metric_type |-> metricType, session_id |-> HeaderSession(r)]
                  \in DOMAIN gameMetricsGauge'
          IN /\ ev.Type = "level_change" =>
                  has("current_level") /\ at("current_level") = ev.Level
             /\ ev.Type = "score_change" =>
                  has("current_score") /\ at("current_score") = ev.Score
             /\ ev.Type = "game_start" =>
                  has("game_sessions") /\ at("game_sessions") = 1]_vars

C4_Witness ==
  /\ \E r \in Requests :
       /\ req[r] = Request(EventsPath, "POST", HeadersOf("s2", "c2"), LevelChangeBody)
       /\ pc[r] = "done"
       /\ gameMetricsGauge[[metric_type |-> "current_level", session_id |-> "s2"]] = 5
  /\ \E r \in Requests :
       /\ req[r].body = ScoreChangeBody
       /\ pc[r] = "done"
       /\ gameMetricsGauge[[metric_type |-> "current_score", session_id |-> "s1"]] = 7

\* C5. A decoded event whose type is outside level_change, score_change,
\* game_start never changes game_metrics; its counter step adds 1 to its own
\* series and it is answered 200.
C5_OtherTypesNoGauge ==
  [][\A r \in Requests :
       (/\ req[r].endpoint = EventsPath
        /\ Decoded(r)
        /\ loc[r].clientEvent.Type \notin BusinessTypes
        /\ Stepped(r)) =>
          LET l == [event_type |-> loc[r].clientEvent.Type,
                    session_id |-> HeaderSession(r)]
          IN /\ gameMetricsGauge' = gameMetricsGauge
             /\ pc[r] = "count" =>
                  SeriesValue(clientEventCounter', l) = SeriesValue(clientEventCounter, l) + 1
             /\ pc'[r] = "done" => resp'[r].status = 200]_vars

C5_Witness ==
  /\ \E r \in Requests :
       /\ req[r].body = SpanBody
       /\ pc[r] = "done"
       /\ resp[r].status = 200
       /\ clientEventCounter[[event_type |-> "span", session_id |-> "s1"]] = 1
  /\ \E r \in Requests :
       /\ req[r].body = EmptyObjectBody
       /\ req[r].endpoint = EventsPath
       /\ pc[r] = "done"
       /\ resp[r].status = 200
       /\ clientEventCounter[[event_type |-> "", session_id |-> "s1"]] = 1
  /\ gameMetricsGauge = EmptyFn

\* C6. When all requests are well-formed events with pairwise distinct
\* X-Session-ID headers, then in every interleaving the series of each
\* request's session hold 1 in total once the request is counted and 0
\* before, and the counter total is the number of requests counted.
C6_ConcurrentAttribution ==
  LET events_  == \A r \in Requests :
                    /\ req[r].endpoint = EventsPath
                    /\ req[r].method = "POST"
                    /\ ~Malformed(r)
      distinct == \A r1, r2 \in Requests :
                    r1 # r2 => HeaderSession(r1) # HeaderSession(r2)
      ofSession(sid) == {l \in DOMAIN clientEventCounter : l.session_id = sid}
  IN (events_ /\ distinct) =>
       /\ \A r \in Requests :
            SumValues(clientEventCounter, ofSession(HeaderSession(r))) =
              IF Counted(r) THEN 1 ELSE 0
       /\ SumValues(clientEventCounter, DOMAIN clientEventCounter) =
            Cardinality({r \in Requests : Counted(r)})

C6_Witness ==
  /\ Len(req) = MaxReq
  /\ \A r \in Requests : req[r].body = LevelChangeBody /\ pc[r] = "gauge"
  /\ \A r1, r2 \in Requests : r1 # r2 => HeaderSession(r1) # HeaderSession(r2)
  /\ \A r \in Requests :
       clientEventCounter[[event_type |-> "level_change",
                           session_id |-> HeaderSession(r)]] = 1

\* C7. The session and correlation ids in the handler's span attributes, log
\* line, counter labels and gauge labels are the values of the X-Session-ID and
\* X-Correlation-ID headers ("" when absent), never those of the body.
C7_IdentityFromHeaders ==
  LET sessions == {HeaderSession(r) : r \in {q \in Requests : Decoded(q)}}
  IN /\ \A r \in Requests :
          Decoded(r) =>
            /\ span[r].attrs["client.session_id"] = JStr(HeaderSession(r))
            /\ span[r].attrs["client.correlation_id"] = JStr(HeaderCorrelation(r))
            /\ logs[r][Len(logs[r])].fields.session_id = JStr(HeaderSession(r))
            /\ logs[r][Len(logs[r])].fields.correlation_id = JStr(HeaderCorrelation(r))
     /\ \A l \in DOMAIN clientEventCounter : l.session_id \in sessions
     /\ \A l \in DOMAIN gameMetricsGauge : l.session_id \in sessions

C7_Witness ==
  /\ \E r \in Requests :
       /\ req[r] = Request(EventsPath, "POST", NoHeaders, LevelChangeBody)
       /\ pc[r] = "done"
       /\ loc[r].clientEvent.SessionID = "sB"
       /\ [metric_type |-> "current_level", session_id |-> ""] \in DOMAIN gameMetricsGauge
  /\ \E r \in Requests :
       /\ req[r] = Request(MetricsPath, "POST", HeadersOf("s1", "c1"), FpsBody)
       /\ pc[r] = "done"
       /\ loc[r].clientMetric.SessionID = "sB"
       /\ [metric_type |-> "fps", session_id |-> "s1", source |-> "client"]
            \in DOMAIN gameMetricsGauge

\* C8. A finished request has had its status written exactly once; from the
\* moment the body is decoded the only status it can get is 200, with the
\* body {"status":"received"}.
C8_OneStatus ==
  \A r \in Requests :
    /\ resp[r].writeHeaderCalls <= 1
    /\ pc[r] = "done" => resp[r].writeHeaderCalls = 1 /\ resp[r].status \in {200, 400}
    /\ Decoded(r) => resp[r].status \in {0, 200}
    /\ (Decoded(r) /\ pc[r] = "done") =>
          /\ resp[r].status = 200
          /\ resp[r].body = <<[status |-> "received"]>>

C8_Witness ==
  /\ \E r \in Requests :
       /\ req[r].endpoint = EventsPath
       /\ Decoded(r)
       /\ pc[r] = "done"
       /\ resp[r].status = 200
  /\ \E r \in Requests :
       /\ req[r].endpoint = MetricsPath
       /\ Decoded(r)
       /\ pc[r] = "done"
       /\ resp[r].status = 200

\* C9 as claimed. Every well-formed metric that was processed has added 1 to
\* an ingestion counter: the counter total is the number of events counted
\* plus the number of metrics processed.
C9_MetricsCounted ==
  SumValues(clientEventCounter, DOMAIN clientEventCounter) =
    Cardinality({r \in Requests : Counted(r)}) +
    Cardinality({r \in Requests :
                   req[r].endpoint = MetricsPath /\ Decoded(r) /\ pc[r] = "done"})

\* C9 as amended. The metrics handler increments no counter; its one gauge
\* step records the metric's value under metric_type = the metric's name, the
\* header's session and source = client, whatever the name or kind, and no
\* other step of the handler touches the gauge.
C9_MetricsGaugeOnly ==
  [][\A r \in Requests :
       (req[r].endpoint = MetricsPath /\ Stepped(r)) =>
          /\ clientEventCounter' = clientEventCounter
          /\ IF pc[r] = "gauge"
               THEN LET m == loc[r].clientMetric
                        l == [metric_type |-> m.Name, session_id |-> HeaderSession(r),
                              source |-> "client"]
                    IN /\ Decoded(r)
                       /\ DOMAIN gameMetricsGauge' = DOMAIN gameMetricsGauge \cup {l}
                       /\ gameMetricsGauge'[l] = m.Value
                       /\ \A k \in DOMAIN gameMetricsGauge :
                            k # l => gameMetricsGauge'[k] = gameMetricsGauge[k]
               ELSE gameMetricsGauge' = gameMetricsGauge]_vars

C9_Witness ==
  /\ \E r \in Requests :
       /\ req[r] = Request(MetricsPath, "POST", HeadersOf("s2", "c2"), FramesBody)
       /\ loc[r].clientMetric.Type = "counter"
       /\ pc[r] = "done"
       /\ resp[r].status = 200
  /\ gameMetricsGauge[[metric_type |-> "frames_rendered_total", session_id |-> "s2",
                       source |-> "client"]] = 100
  /\ clientEventCounter = EmptyFn

\* C10. Every event handed to the transport by LogEvent or End carries the
\* client's session id and the correlation id current at that call, and that
\* correlation id is not empty.
C10_EventsCarryIdentity ==
  [][\A g \in DOMAIN sends' \ DOMAIN sends :
       sends'[g].endpoint = EventsPath =>
          /\ sends'[g].data.SessionID = sessionID
          /\ sends'[g].data.CorrelationID = correlationID
          /\ sends'[g].data.CorrelationID # ""]_vars

\* C11. The correlation id changes only in a step that changes nothing else
\* of the client (a SetCorrelationID call): every step that appends to the
\* buffer, records a metric, starts, annotates or ends a span, or runs a
\* detached send leaves it unchanged; and every event handed to the transport
\* carries the id set by the latest SetCorrelationID (the construction-time id
\* before the first).
C11_CorrelationFrame ==
  [][/\ correlationID' # correlationID =>
          /\ correlationID' \in CorrelationIDArgs
          /\ ops' = ops + 1
          /\ UNCHANGED <<sessionID, events, metrics, spans, sends, clock>>
     /\ \A g \in DOMAIN sends' \ DOMAIN sends :
          sends'[g].endpoint = EventsPath =>
             sends'[g].data.CorrelationID = correlationID]_vars

C11_Witness ==
  /\ correlationID = "corr_next"
  /\ Len(spans) = 1
  /\ Len(sends) = 1
  /\ sends[1].caller.op = "End"
  /\ sends[1].data.CorrelationID = "corr_next"
  /\ sends[1].state = "fetching"

\* C12. The session id is the one generated at construction in every state,
\* and every event in the buffer, every record handed to the transport, every
\* span and every X-Session-ID header of an issued request carries it.
C12_SessionFixed ==
  /\ sessionID = generateSessionID(1)
  /\ \A i \in DOMAIN events : events[i].SessionID = sessionID
  /\ \A h \in Spans : spans[h].SessionID = sessionID
  /\ \A g \in DOMAIN sends :
       /\ sends[g].data.SessionID = sessionID
       /\ sends[g].fetches > 0 =>
            HeaderGet(sends[g].request.headers, "X-Session-ID") = sessionID

C12_Witness ==
  /\ Len(events) = 1
  /\ Len(spans) = 1
  /\ \E g \in DOMAIN sends :
       /\ sends[g].endpoint = MetricsPath
       /\ sends[g].fetches = 1
       /\ sends[g].request.body = MarshalMetric(sends[g].data)
  /\ \E g \in DOMAIN sends :
       /\ sends[g].endpoint = EventsPath
       /\ sends[g].state = "failed"

\* C13. The event buffer is, in every state, the sequence of the events the
\* LogEvent calls made so far built, in call order.
C13_BufferAppendOnly ==
  LET calls == SelectSeq(sends, LAMBDA gr : gr.caller.op = "LogEvent")
  IN /\ Len(events) = Len(calls)
     /\ \A i \in DOMAIN events : events[i] = calls[i].data

C13_Witness ==
  /\ Len(events) = 3
  /\ events[1].Type = "level_change"
  /\ events[2].Type = "game_start"
  /\ events[3].Type = "level_change"
  /\ events[1].Timestamp < events[3].Timestamp

\* C14. Every event ever handed to the transport, the "span" events of End
\* included, is also present in the client event buffer.
C14_TransportFromBuffer ==
  \A g \in DOMAIN sends :
    sends[g].endpoint = EventsPath =>
      \E i \in DOMAIN events : events[i] = sends[g].data

\* C15. After every step the metric map holds for each recorded name the
\* value of the latest RecordMetric call with that name and no other name;
\* a RecordMetric call hands exactly one Metric, the one it built, to the
\* transport, and no other step changes the map.
C15_MetricLastWriteWins ==
  [][LET new == DOMAIN sends' \ DOMAIN sends
     IN /\ MetricMapIsLastWrite'
        /\ RecordMetric =>
             /\ Cardinality(new) = 1
             /\ \A g \in new :
                  /\ sends'[g].endpoint = MetricsPath
                  /\ sends'[g].data.Name \in DOMAIN metrics'
                  /\ metrics'[sends'[g].data.Name] = sends'[g].data.Value
        /\ (\A g \in new : sends'[g].endpoint # MetricsPath) =>
             metrics' = metrics]_vars

C15_Witness ==
  /\ Len(sends) = 3
  /\ \A g \in DOMAIN sends : sends[g].endpoint = MetricsPath
  /\ sends[1].data.Name = "fps" /\ sends[1].data.Value = 60
  /\ sends[2].data.Name = "fps" /\ sends[2].data.Value = 30
  /\ sends[3].data.Name = "frames_rendered_total"
  /\ DOMAIN metrics = {"fps", "frames_rendered_total"}
  /\ metrics["fps"] = 30
  /\ metrics["frames_rendered_total"] = 100

\* C16. Every record handed to the transport has caused at most one call of
\* fetch, none when serialization failed and exactly one when the request
\* failed; the requests issued never outnumber the records emitted.
C16_NoRetry ==
  /\ \A g \in DOMAIN sends :
       /\ sends[g].fetches <= 1
       /\ sends[g].state \in {"spawned", "marshal_failed"} => sends[g].fetches = 0
       /\ sends[g].state \in {"fetching", "failed"} => sends[g].fetches = 1
  /\ SumFetches(sends) <= Len(sends)

C16_Witness ==
  /\ Len(sends) = 3
  /\ sends[1].state = "failed" /\ sends[1].fetches = 1
  /\ sends[2].state = "failed" /\ sends[2].fetches = 1
  /\ sends[3].state = "fetching"
  /\ SumFetches(sends) = 3

\* C17. A step in which a send fails (json.Marshal error or rejected fetch)
\* changes nothing of the client but that send's state: session id,
\* correlation id, buffer, metric map, spans and the emitting thread's call
\* count stay as they are and no goroutine is added; a failed send never
\* changes again (the record is dropped).
C17_FailureNotEscalated ==
  [][\A g \in DOMAIN sends :
       /\ (~SendFailed(sends[g]) /\ SendFailed(sends'[g])) =>
            /\ UNCHANGED <<sessionID, correlationID, events, metrics, spans, ops>>
            /\ DOMAIN sends' = DOMAIN sends
            /\ \A k \in DOMAIN sends : k # g => sends'[k] = sends[k]
            /\ sends'[g].data = sends[g].data
       /\ SendFailed(sends[g]) => sends'[g] = sends[g]]_vars

C17_Witness ==
  /\ Len(sends) = 2
  /\ sends[1].endpoint = EventsPath /\ sends[1].state = "failed"
  /\ sends[2].endpoint = MetricsPath /\ sends[2].state = "marshal_failed"
  /\ Len(events) = 1
  /\ metrics = ("fps" :> 30)
  /\ ops = 2

\* C18. Whatever the state of the detached sends, as long as the emitting
\* thread has calls left to make, LogEvent, RecordMetric and End of every
\* span can be taken: none of them waits for a send.
C18_EmitNeverWaits ==
  ops < MaxOps =>
    /\ ENABLED LogEvent
    /\ ENABLED RecordMetric
    /\ \A h \in Spans : ENABLED End(h)

C18_Witness ==
  /\ ops = 2
  /\ ops < MaxOps
  /\ Len(sends) = 2
  /\ sends[1].caller.op = "LogEvent" /\ sends[1].state = "fetching"
  /\ sends[2].caller.op = "RecordMetric" /\ sends[2].state = "spawned"

\* C19. Whatever the order in which a client's events reach the events
\* handler, every request that carries one is decoded, answered 200 and
\* counted exactly once: each series holds the number of counted requests of
\* its type, and the total is the number of requests counted.
C19_OutOfOrderTolerated ==
  /\ \A r \in Requests :
       /\ \E g \in DOMAIN sends :
            /\ sends[g].state = "delivered"
            /\ req[r].body = MarshalEvent(sends[g].data)
       /\ pc[r] # "start" => Decoded(r)
       /\ pc[r] = "done" => resp[r].status = 200 /\ Counted(r)
  /\ \A l \in DOMAIN clientEventCounter :
       clientEventCounter[l] =
         Cardinality({r \in Requests :
                        /\ Counted(r)
                        /\ loc[r].clientEvent.Type = l.event_type
                        /\ HeaderSession(r) = l.session_id})
  /\ SumValues(clientEventCounter, DOMAIN clientEventCounter) =
       Cardinality({r \in Requests : Counted(r)})

\* events A then B were emitted in this order, B reached the handler first,
\* and both are answered 200 and counted once
C19_Witness ==
  /\ Len(sends) >= 2
  /\ Len(req) = 2
  /\ sends[1].data.Timestamp < sends[2].data.Timestamp
  /\ sends[1].data.Type = "level_change"
  /\ sends[2].data.Type = "game_start"
  /\ req[1].body = MarshalEvent(sends[2].data)
  /\ req[2].body = MarshalEvent(sends[1].data)
  /\ \A r \in Requests : pc[r] = "done" /\ resp[r].status = 200
  /\ clientEventCounter[[event_type |-> "level_change", session_id |-> sessionID]] = 1
  /\ clientEventCounter[[event_type |-> "game_start", session_id |-> sessionID]] = 1

\* C20. The attributes of the "span" event an End call hands over are exactly
\* the span's attributes at that call plus duration_ms and operation_name,
\* with the span's value on every key the span has (duration_ms and
\* operation_name included) and the automatic value otherwise; and a
\* SetAttribute call leaves its key at the value it was passed, whatever the
\* key held before, and every other key as it was.
C20_SpanAttributesWin ==
  [][/\ \A h \in Spans, a \in SetAttributeArgs :
          ops < MaxOps =>
            ENABLED (/\ SetAttribute(h)
                     /\ spans'[h].Attributes.kv =
                          [k \in DOMAIN spans[h].Attributes.kv \cup {a.key} |->
                             IF k = a.key THEN a.value ELSE spans[h].Attributes.kv[k]])
     /\ \A g \in DOMAIN sends' \ DOMAIN sends :
          sends'[g].caller.op = "End" =>
            LET sp  == spans[sends'[g].caller.h]
                set == sp.Attributes.kv
                got == sends'[g].data.Attributes.kv
            IN /\ DOMAIN got = DOMAIN set \cup {"duration_ms", "operation_name"}
               /\ \A k \in DOMAIN set : got[k] = set[k]
               /\ "duration_ms" \notin DOMAIN set =>
                    got["duration_ms"] =
                      JNum(spans'[sends'[g].caller.h].EndTime - sp.StartTime)
               /\ "operation_name" \notin DOMAIN set =>
                    got["operation_name"] = JStr(sp.OperationName)
     /\ \A h \in Spans :
          spans'[h].Attributes # spans[h].Attributes =>
            \E a \in SetAttributeArgs :
              /\ DOMAIN spans'[h].Attributes.kv =
                   DOMAIN spans[h].Attributes.kv \cup {a.key}
              /\ spans'[h].Attributes.kv[a.key] = a.value
              /\ \A k \in DOMAIN spans[h].Attributes.kv :
                   k # a.key => spans'[h].Attributes.kv[k] = spans[h].Attributes.kv[k]]_vars

C20_Witness ==
  /\ ops = 3
  /\ Len(sends) = 1
  /\ sends[1].caller = [op |-> "End", h |-> 1]
  /\ sends[1].data.Attributes.kv =
       [level          |-> JNum(3),
        duration_ms    |-> JStr("overridden"),
        operation_name |-> JStr("game_loop_iteration")]
  /\ spans[1].EndTime > spans[1].StartTime

\* C21. Once End has been called on a span, no step changes that span's
\* attribute mapping: a SetAttribute call after End leaves it as it was.
C21_NoMutationAfterEnd ==
  [][\A h \in Spans :
       spans[h].EndTime # 0 => spans'[h].Attributes = spans[h].Attributes]_vars

\* C22. Any two spans started by StartSpan have distinct trace ids and
\* distinct span ids, also when the two calls read the same clock value.
C22_FreshSpanIds ==
  \A h1, h2 \in Spans :
    h1 # h2 =>
      /\ spans[h1].TraceID # spans[h2].TraceID
      /\ spans[h1].SpanID # spans[h2].SpanID

AllInstruments == {Instruments[i] : i \in DOMAIN Instruments}

Serving == main.routes # {} \/ main.pc \in {"routes", "listening"} \/ req # <<>>

\* C23. The server registers routes, listens and takes requests only when
\* all five instruments were created; once the creation of an instrument has
\* failed the process is over: it has no route and no request, and no step
\* changes that.
C23_InstrumentsBeforeServing ==
  /\ [](Serving => main.created = AllInstruments /\ main.next = Len(Instruments) + 1)
  /\ [](main.pc = "fatal" => main.routes = {} /\ req = <<>>)
  /\ [][/\ main.pc = "fatal" => (main' = main /\ req' = req)
        /\ (main.pc = "init" /\ main' # main) =>
              \/ main'.pc = "fatal"
              \/ /\ main'.pc = "init"
                 /\ main'.next = main.next + 1
                 /\ main'.created = main.created \cup {Instruments[main.next]}
              \/ /\ main'.pc = "routes"
                 /\ main.created = AllInstruments]_vars

C23_Witness ==
  /\ main.pc = "fatal"
  /\ main.created = {"http_requests_total", "http_request_duration_seconds",
                     "health_checks_total"}
  /\ main.next = 4
  /\ main.routes = {}
  /\ req = <<>>

KindStep(r) == req[r].endpoint = MetricsPath /\ pc[r] = "gauge" /\ Stepped(r)

\* C24. The kind of a metric determines how the server aggregates it: a
\* series fed by a counter-kind metric never decreases, a gauge-kind metric
\* overwrites the series.
C24_KindAggregation ==
  [][\A r \in Requests :
       KindStep(r) =>
         LET m == loc[r].clientMetric
             l == ClientMetricLabel(m, HeaderSession(r))
         IN /\ (m.Type = "counter" /\ l \in DOMAIN gameMetricsGauge) =>
                 gameMetricsGauge'[l] >= gameMetricsGauge[l]
            /\ m.Type = "gauge" => gameMetricsGauge'[l] = m.Value]_vars

\* C24 as amended. The kind of a metric does not enter the aggregation: the
\* received value overwrites the series of the metric's name and session
\* whether the kind is counter or gauge, the series' attributes carry no
\* kind, and the kind is only tagged on the handler's span and log line.
C24_KindOnlyTagged ==
  [][\A r \in Requests :
       KindStep(r) =>
         LET m == loc[r].clientMetric
             l == [metric_type |-> m.Name, session_id |-> HeaderSession(r),
                   source |-> "client"]
         IN /\ m.Type \in {"counter", "gauge"}
            /\ l \in DOMAIN gameMetricsGauge'
            /\ gameMetricsGauge'[l] = m.Value
            /\ span[r].attrs["client.metric.type"] = JStr(m.Type)
            /\ logs[r][Len(logs[r])].fields.metric_type = JStr(m.Type)]_vars

C24_Witness ==
  /\ Len(req) = 2
  /\ req[1].body = FramesBody
  /\ req[2].body = FramesLowBody
  /\ span[1].ended = 1
  /\ pc[2] = "done"
  /\ loc[2].clientMetric.Type = "counter"
  /\ gameMetricsGauge[[metric_type |-> "frames_rendered_total", session_id |-> "s2",
                       source |-> "client"]] = 40

HealthDone(r) == req[r].endpoint = HealthPath /\ pc[r] = "done"

\* C25. Every answered /health request has status 200 and a body whose
\* status is "healthy", whatever its method, the requests before it and the
\* instruments' values, and health_checks_total counts each of them once.
C25_HealthAlways200 ==
  /\ \A r \in Requests :
       HealthDone(r) =>
         /\ resp[r].status = 200
         /\ Len(resp[r].body) >= 1
         /\ resp[r].body[1].status = "healthy"
         /\ resp[r].body[1].service = "incident-commander-game"
  /\ healthCheckCount = Cardinality({r \in Requests : HealthDone(r)})

C25_Witness ==
  /\ Len(req) = 2
  /\ req[1] = Request(MetricsPath, "POST", HeadersOf("s1", "c1"), FpsBody)
  /\ pc[1] = "done"
  /\ gameMetricsGauge # EmptyFn
  /\ req[2] = Request(HealthPath, "POST", NoHeaders, NullBody)
  /\ pc[2] = "done"
  /\ span[2].status = "Error"
  /\ resp[2].status = 200
  /\ healthCheckCount = 1

Preflight(q) ==
  q.method = "OPTIONS" /\ q.endpoint \in {EventsPath, MetricsPath} \cup StaticPaths

\* C26. An OPTIONS request to a telemetry route or to /web/, /static/ or
\* /images/ is answered 200 with the three CORS headers when it arrives, its
\* handler is not invoked (no span, no decoded body), no counter or gauge
\* changes, and no later step touches its response.
C26_PreflightShortCircuit ==
  [][/\ (Len(req') > Len(req) /\ Preflight(req'[Len(req')])) =>
          LET r == Len(req')
          IN /\ resp'[r].status = 200
             /\ resp'[r].writeHeaderCalls = 1
             /\ resp'[r].body = <<>>
             /\ resp'[r].header =
                  ("Access-Control-Allow-Origin" :> "*") @@
                  ("Access-Control-Allow-Methods" :> "GET, POST, OPTIONS") @@
                  ("Access-Control-Allow-Headers" :> "Content-Type")
             /\ pc'[r] = "done"
             /\ span'[r] = NoSpan
             /\ loc'[r] = NoLocals
             /\ UNCHANGED <<clientEventCounter, gameMetricsGauge, healthCheckCount>>
     /\ \A r \in Requests :
          Preflight(req[r]) =>
            /\ pc'[r] = pc[r]
            /\ resp'[r] = resp[r]
            /\ span'[r] = span[r]
            /\ loc'[r] = loc[r]]_vars

C26_Witness ==
  /\ Len(req) = 2
  /\ req[1] = Request("/static/", "OPTIONS", NoHeaders, GarbageBody)
  /\ req[2] = Request(MetricsPath, "OPTIONS", NoHeaders, GarbageBody)
  /\ pc = <<"done", "done">>
  /\ resp[1].status = 200
  /\ resp[2].status = 200
  /\ span = <<NoSpan, NoSpan>>
  /\ clientEventCounter = EmptyFn
  /\ gameMetricsGauge = EmptyFn

\* the optional members of an Event and the fields they encode
OptionalPresent(ev) ==
  [level      |-> ev.Level # 0,
   score      |-> ev.Score # 0,
   data       |-> ev.Data # "",
   attributes |-> ev.Attributes.kv # EmptyFn,
   trace_id   |-> ev.TraceID # "",
   span_id    |-> ev.SpanID # ""]

\* C27. The encoded form of an event has an optional member exactly when the
\* field is non-zero; the handler decodes every encoded event, and the decoded
\* event has the same required fields and the same optional fields: a value
\* that was sent is kept and a field that was omitted is zero (attributes
\* nil), so nothing is injected.
C27_EventRoundTrip ==
  \A r \in Requests :
    LET e == sends[1].data
        d == loc[r].clientEvent
    IN /\ req[r].body = MarshalEvent(e)
       /\ \A k \in DOMAIN OptionalPresent(e) :
            k \in DOMAIN req[r].body.o <=> OptionalPresent(e)[k]
       /\ {"type", "timestamp", "session_id", "correlation_id"}
             \subseteq DOMAIN req[r].body.o
       /\ pc[r] # "start" =>
            /\ Decoded(r)
            /\ d.Type = e.Type
            /\ d.Timestamp = e.Timestamp
            /\ d.SessionID = e.SessionID
            /\ d.CorrelationID = e.CorrelationID
            /\ d.Level = e.Level
            /\ d.Score = e.Score
            /\ d.Data = e.Data
            /\ d.Attributes.kv = e.Attributes.kv
            /\ d.Attributes.isNil <=> e.Attributes.kv = EmptyFn
            /\ d.TraceID = e.TraceID
            /\ d.SpanID = e.SpanID
            /\ OptionalPresent(d) = OptionalPresent(e)

\* a span event with attributes, data and ids but no level and score went
\* through the encoder and the handler's decoder
C27_Witness ==
  /\ Len(req) = 1
  /\ pc[1] = "done"
  /\ sends[1].caller.op = "End"
  /\ DOMAIN req[1].body.o =
       {"type", "timestamp", "session_id", "correlation_id", "data",
        "attributes", "trace_id", "span_id"}
  /\ loc[1].clientEvent.TraceID = "trace_1"
  /\ loc[1].clientEvent.SpanID = "span_1"
  /\ loc[1].clientEvent.Level = 0
  /\ loc[1].clientEvent.Attributes.kv["level"] = JNum(3)
  /\ loc[1].clientEvent.Data = "game_loop_iteration"

\* C28. Every event request the transport has issued carries an
\* X-Correlation-ID header equal to the correlation_id member of its body,
\* also when SetCorrelationID ran between the emitting call and sendToServer.
C28_HeaderMatchesBody ==
  \A g \in DOMAIN sends :
    (sends[g].endpoint = EventsPath /\ sends[g].fetches > 0) =>
      /\ "correlation_id" \in DOMAIN sends[g].request.body.o
      /\ JStr(HeaderGet(sends[g].request.headers, "X-Correlation-ID")) =
           sends[g].request.body.o["correlation_id"]

\* C29. Every invocation of a telemetry handler opens one span and closes it
\* once, on the read failure, the decode failure and the success path: an
\* answered request has a span opened once and ended once, a request still
\* in its handler has it open, and a preflight has none.
C29_OneSpanPerInvocation ==
  \A r \in Requests :
    /\ span[r].started <= 1
    /\ span[r].ended <= span[r].started
    /\ pc[r] = "start" => span[r].started = 0
    /\ pc[r] \in {"count", "gauge"} => span[r].started = 1 /\ span[r].ended = 0
    /\ (pc[r] = "done" /\ req[r].method # "OPTIONS") =>
          span[r].started = 1 /\ span[r].ended = 1
    /\ (resp[r].status # 0 /\ req[r].method # "OPTIONS") => span[r].ended = 1
    /\ req[r].method = "OPTIONS" => span[r] = NoSpan

\* a request whose body could not be decoded and a request that succeeded,
\* both answered, each with its span ended once
C29_Witness ==
  /\ Len(req) = 2
  /\ pc = <<"done", "done">>
  /\ resp[1].status = 400
  /\ span[1].status = "Error"
  /\ span[1].ended = 1
  /\ resp[2].status = 200
  /\ span[2].status = "Unset"
  /\ span[2].ended = 1

\* C30. A touch end whose displacements are both below 10 in absolute value
\* is a tap, whichever displacement is larger: tapCount goes up by one and
\* the game is paused; and no touch end counts as both a swipe and a tap.
C30_SmallGestureIsTap ==
  [][\A x, y \in Coords :
       TouchEnd(x, y, TRUE) =>
         /\ (/\ abs(x - inputHandler.touchStartX) < 10
             /\ abs(y - inputHandler.touchStartY) < 10) =>
               /\ inputHandler'.tapCount = inputHandler.tapCount + 1
               /\ game'.pauseCalls = game.pauseCalls + 1
         /\ (inputHandler'.swipeCount - inputHandler.swipeCount)
              + (inputHandler'.tapCount - inputHandler.tapCount) <= 1]_vars

====
